---------------------------- MODULE Spec2Model ----------------------------
(***************************************************************************)
(* Resource-constrained shortest path by a genetic algorithm               *)
(* (src/src/main.rs).  The decoder (decode_chromosome) is a step machine   *)
(* of its own under SpecDecode; the evolution loop (genetic_algorithm)     *)
(* runs under SpecGA, and under SpecElite for populations of 10, and calls  *)
(* the decoder as an operator built from the same step operators.          *)
(*                                                                         *)
(* BinaryHeap::pop returns a greatest entry; which one among entries that  *)
(* compare Equal is left to the heap.  SpecDecode pops any of them; the    *)
(* evolution loop needs decode_chromosome as a function and takes the      *)
(* oldest or the newest of them throughout a run (heapTie).                *)
(*                                                                         *)
(* f64 values: every cost and resource of the model is a small natural     *)
(* number, on which f64 addition and comparison are exact.  A fitness      *)
(* 1.0 / cost is kept as the fraction [num |-> 1, den |-> cost]            *)
(* (den = 0 is +infinity, as 1.0 / 0.0 is in IEEE arithmetic) and 0.0 as   *)
(* [num |-> 0, den |-> 1]; fractions are compared by cross multiplication. *)
(***************************************************************************)
EXTENDS Integers, Sequences, FiniteSets, TLC

VARIABLES
    graph,            \* Graph: [num_nodes, edges]; edges maps a node to its Vec<Edge>
    resource_limits,  \* &[f64]
    \* ---- decode_chromosome (SpecDecode)
    genes,            \* chromosome.genes of the chromosome being decoded
    queue,            \* BinaryHeap<State>, kept as the sequence of its entries
    visited,          \* HashSet<usize>
    came_from,        \* HashMap<usize, usize>
    cost_so_far,      \* HashMap<usize, f64>
    current,          \* the State popped last
    node,             \* cursor of the path reconstruction
    path,             \* the path under reconstruction / returned
    dpc,              \* position in decode_chromosome
    \* ---- genetic_algorithm (SpecGA)
    population_size,
    generations,
    population,
    new_population,
    gen,              \* generations completed
    result,           \* return value of genetic_algorithm
    heapTie,          \* how the build's BinaryHeap orders entries that compare Equal
    pc                \* position in genetic_algorithm

vars == <<graph, resource_limits, genes, queue, visited, came_from, cost_so_far,
          current, node, path, dpc, population_size, generations, population,
          new_population, gen, result, heapTie, pc>>

decodeVars == <<genes, queue, visited, came_from, cost_so_far, current, node, path, dpc>>

gaVars == <<population_size, generations, population, new_population, gen, result,
            heapTie, pc>>

\* ------------------------------------------------------------------ bounds

\* Longest path the reconstruction walk is followed for in SpecDecode.
MaxWalk == 6
\* Largest number of generations a run is given.
MaxGen == 2
\* Largest number of generations a run of SpecElite is given.
MaxEliteGen == 1

\* usize::MAX, the priority of a node that is not a gene; only its order
\* against gene indexes matters.
USIZE_MAX == 2147483647

\* Option::None
None == [kind |-> "None"]

\* ------------------------------------------------------------------ graph

Edge(from, to, cost, resources) ==
    [from |-> from, to |-> to, cost |-> cost, resources |-> resources]

RECURSIVE BuildEdges(_, _)
\* main(): graph.edges.entry(from).or_insert_with(Vec::new).push(Edge {..})
BuildEdges(edgeList, k) ==
    IF k = 0 THEN << >>
    ELSE LET m == BuildEdges(edgeList, k - 1)
             e == edgeList[k]
             old == IF e.from \in DOMAIN m THEN m[e.from] ELSE << >>
         IN [x \in (DOMAIN m) \cup {e.from} |->
                IF x = e.from
                THEN Append(old, [to |-> e.to, cost |-> e.cost, resources |-> e.resources])
                ELSE m[x]]

Graph(n, edgeList) ==
    [num_nodes |-> n, edges |-> BuildEdges(edgeList, Len(edgeList))]

\* All permutations of the set S, as sequences.
Permutations1(S) ==
    {f \in [1..Cardinality(S) -> S] : \A i, j \in 1..Cardinality(S) : i # j => f[i] # f[j]}

\* ------------------------------------------------------------------ decoder

\* impl Ord for State: a > b (a is popped before b).
StateGreater(a, b) ==
    \/ a.priority < b.priority
    \/ a.priority = b.priority /\ a.cost < b.cost

\* The indexes of the entries BinaryHeap::pop may return: the greatest ones.
MaxIdx(q) ==
    {i \in 1..Len(q) : \A j \in 1..Len(q) : ~StateGreater(q[j], q[i])}

RemoveAt(q, i) == SubSeq(q, 1, i - 1) \o SubSeq(q, i + 1, Len(q))

\* The priorities map: node -> index of the node in genes (0-based).
Priorities(gs) ==
    [nd \in {gs[i] : i \in 1..Len(gs)} |-> (CHOOSE i \in 1..Len(gs) : gs[i] = nd) - 1]

PriorityOf(gs, nd) ==
    IF nd \in DOMAIN Priorities(gs) THEN Priorities(gs)[nd] ELSE USIZE_MAX

\* HashMap::insert
MapInsert(m, k, v) == [x \in (DOMAIN m) \cup {k} |-> IF x = k THEN v ELSE m[x]]

\* The state of one decode_chromosome call.
StartSearch(limits) ==
    [queue |-> << [node |-> 0, cost |-> 0,
                   resources |-> [i \in 1..Len(limits) |-> 0],
                   priority |-> 0] >>,
     visited |-> {},
     came_from |-> << >>,
     cost_so_far |-> MapInsert(<< >>, 0, 0)]

\* The comparison against the limit is turned around.
EdgeValidInverted(cur, edge, limits) ==
    \A i \in 1..Len(limits) : cur.resources[i] + edge.resources[i] >= limits[i]

\* The resource check of one edge: no component of current + edge exceeds its limit.
EdgeValid(cur, edge, limits) ==
    \A i \in 1..Len(limits) : cur.resources[i] + edge.resources[i] <= limits[i]

NewResources(cur, edge, limits) ==
    [i \in 1..Len(limits) |-> cur.resources[i] + edge.resources[i]]

RECURSIVE ExploreEdges(_, _, _, _, _, _)
\* for edge in edges { ... }: the first k edges of the popped node are handled.
ExploreEdges(d, cur, edges, k, gs, limits) ==
    IF k = 0 THEN d
    ELSE LET b == ExploreEdges(d, cur, edges, k - 1, gs, limits)
             edge == edges[k]
         IN IF EdgeValid(cur, edge, limits)
            THEN [b EXCEPT
                    !.queue = Append(@, [node |-> edge.to,
                                         cost |-> cur.cost + edge.cost,
                                         resources |-> NewResources(cur, edge, limits),
                                         priority |-> PriorityOf(gs, edge.to)]),
                    !.came_from = MapInsert(@, edge.to, cur.node),
                    !.cost_so_far = MapInsert(@, edge.to, cur.cost + edge.cost)]
            ELSE b

\* One iteration of the while loop that pops entry i and does not return:
\* the node is visited already (continue) or it is expanded.
Expand(d, i, g, gs, limits) ==
    LET cur == d.queue[i]
        rest == [d EXCEPT !.queue = RemoveAt(d.queue, i)]
    IN IF cur.node \in d.visited THEN rest
       ELSE LET marked == [rest EXCEPT !.visited = @ \cup {cur.node}]
            IN IF cur.node \in DOMAIN g.edges
               THEN ExploreEdges(marked, cur, g.edges[cur.node],
                                 Len(g.edges[cur.node]), gs, limits)
               ELSE marked

Sink(g) == g.num_nodes - 1

Reverse(s) == [i \in 1..Len(s) |-> s[Len(s) + 1 - i]]


Some(p, c) == [kind |-> "Some", path |-> p, cost |-> c]

\* The reconstruction loop never ends: came_from leads back to a node of the path.
Hang == [kind |-> "Hang"]

Elems(s) == {s[i] : i \in 1..Len(s)}

RECURSIVE WalkBack(_, _, _)
\* while let Some(&prev) = came_from.get(&node) { path.push(prev); node = prev; }
\* came_from does not change during the walk, so a node met twice is met forever.
WalkBack(cf, p, nd) ==
    IF nd \in DOMAIN cf
    THEN IF cf[nd] \in Elems(p) THEN Hang
         ELSE WalkBack(cf, Append(p, cf[nd]), cf[nd])
    ELSE [kind |-> "Path", path |-> Reverse(p)]

\* The entry a deterministic heap pops among those that compare Equal.
PopChoice(q, tie) ==
    IF tie = "oldest"
    THEN CHOOSE i \in MaxIdx(q) : \A j \in MaxIdx(q) : i <= j
    ELSE CHOOSE i \in MaxIdx(q) : \A j \in MaxIdx(q) : i >= j

RECURSIVE Search(_, _, _, _, _)
\* while let Some(current) = queue.pop() { ... } None
Search(d, g, gs, limits, tie) ==
    IF d.queue = << >> THEN None
    ELSE LET i == PopChoice(d.queue, tie)
             cur == d.queue[i]
         IN IF cur.node = Sink(g)
            THEN LET w == WalkBack(d.came_from, << cur.node >>, cur.node)
                 IN IF w.kind = "Hang" THEN Hang ELSE Some(w.path, cur.cost)
            ELSE Search(Expand(d, i, g, gs, limits), g, gs, limits, tie)

\* decode_chromosome as a function of its arguments, for a heap that breaks
\* ties the way `tie` says.
DecodeChromosome(g, gs, limits, tie) ==
    Search(StartSearch(limits), g, gs, limits, tie)

\* ------------------------------------------------- decoder as a step machine

\* The edges a graph of SpecDecode is drawn from (4 nodes, sink 3), in the
\* order they are added to the graph.
CandidateEdges ==
    << Edge(0, 1, 1, <<1, 0>>),
       Edge(0, 2, 1, <<3, 0>>),
       Edge(1, 2, 1, <<0, 1>>),
       Edge(2, 1, 1, <<0, 0>>),
       Edge(1, 3, 2, <<2, 0>>),
       Edge(2, 3, 1, <<2, 1>>),
       Edge(1, 0, 1, <<0, 0>>),
       Edge(0, 3, 3, <<5, 1>>) >>

LimitChoices == { <<4, 4>>, <<5, 1>>, <<0, 0>> }

RECURSIVE SubList(_, _, _)
\* The entries of list whose index is in S, in order.
SubList(list, S, k) ==
    IF k = 0 THEN << >>
    ELSE IF k \in S THEN Append(SubList(list, S, k - 1), list[k])
         ELSE SubList(list, S, k - 1)

DecodeGraphs ==
    {Graph(4, SubList(CandidateEdges, S, Len(CandidateEdges))) :
        S \in SUBSET (1..Len(CandidateEdges))}

Intermediate(g) == 1..(g.num_nodes - 2)

SearchState ==
    [queue |-> queue, visited |-> visited, came_from |-> came_from,
     cost_so_far |-> cost_so_far]

GAIdle ==
    /\ population_size = 0
    /\ generations = 0
    /\ population = << >>
    /\ new_population = << >>
    /\ gen = 0
    /\ result = None
    /\ heapTie = "any"
    /\ pc = "idle"

\* decode_chromosome entered: lines 57-76 done, at the top of the while loop.
InitDecode ==
    /\ graph \in DecodeGraphs
    /\ resource_limits \in LimitChoices
    /\ genes \in Permutations1(Intermediate(graph))
    /\ queue = StartSearch(resource_limits).queue
    /\ visited = StartSearch(resource_limits).visited
    /\ came_from = StartSearch(resource_limits).came_from
    /\ cost_so_far = StartSearch(resource_limits).cost_so_far
    /\ current = None
    /\ node = 0
    /\ path = << >>
    /\ dpc = "pop"
    /\ GAIdle

SetSearch(d) ==
    /\ queue' = d.queue
    /\ visited' = d.visited
    /\ came_from' = d.came_from
    /\ cost_so_far' = d.cost_so_far

\* The sink is popped: the reconstruction starts.
PopSink ==
    /\ dpc = "pop"
    /\ \E i \in MaxIdx(queue) :
          /\ queue[i].node = Sink(graph)
          /\ current' = queue[i]
          /\ queue' = RemoveAt(queue, i)
          /\ path' = << queue[i].node >>
          /\ node' = queue[i].node
    /\ dpc' = "walk"
    /\ UNCHANGED <<graph, resource_limits, genes, visited, came_from, cost_so_far>>
    /\ UNCHANGED gaVars

\* A node that was expanded before is popped: continue.
PopVisited ==
    /\ dpc = "pop"
    /\ \E i \in MaxIdx(queue) :
          /\ queue[i].node # Sink(graph)
          /\ queue[i].node \in visited
          /\ current' = queue[i]
          /\ SetSearch(Expand(SearchState, i, graph, genes, resource_limits))
    /\ UNCHANGED <<graph, resource_limits, genes, node, path, dpc>>
    /\ UNCHANGED gaVars

\* A new node is popped: it is marked visited and its edges are explored.
PopExpand ==
    /\ dpc = "pop"
    /\ \E i \in MaxIdx(queue) :
          /\ queue[i].node # Sink(graph)
          /\ queue[i].node \notin visited
          /\ current' = queue[i]
          /\ SetSearch(Expand(SearchState, i, graph, genes, resource_limits))
    /\ UNCHANGED <<graph, resource_limits, genes, node, path, dpc>>
    /\ UNCHANGED gaVars

\* queue.pop() is None: decode_chromosome returns None.
Exhausted ==
    /\ dpc = "pop"
    /\ queue = << >>
    /\ dpc' = "none"
    /\ UNCHANGED <<graph, resource_limits, genes, queue, visited, came_from,
                   cost_so_far, current, node, path>>
    /\ UNCHANGED gaVars

\* One iteration of the reconstruction loop.
WalkStep ==
    /\ dpc = "walk"
    /\ node \in DOMAIN came_from
    /\ Len(path) < MaxWalk
    /\ path' = Append(path, came_from[node])
    /\ node' = came_from[node]
    /\ UNCHANGED <<graph, resource_limits, genes, queue, visited, came_from,
                   cost_so_far, current, dpc>>
    /\ UNCHANGED gaVars

\* came_from.get(&node) is None: path.reverse(); return Some((path, current.cost)).
WalkEnd ==
    /\ dpc = "walk"
    /\ node \notin DOMAIN came_from
    /\ path' = Reverse(path)
    /\ dpc' = "some"
    /\ UNCHANGED <<graph, resource_limits, genes, queue, visited, came_from,
                   cost_so_far, current, node>>
    /\ UNCHANGED gaVars

NextDecode ==
    \/ PopSink
    \/ PopVisited
    \/ PopExpand
    \/ Exhausted
    \/ WalkStep
    \/ WalkEnd

SpecDecode == InitDecode /\ [][NextDecode]_vars

\* ------------------------------------------------- what a path consumes

\* The edge u -> v of the graph (the graphs of the model have no parallel edges).
EdgeBetween(g, u, v) ==
    CHOOSE e \in Elems(g.edges[u]) : e.to = v

HasEdge(g, u, v) ==
    /\ u \in DOMAIN g.edges
    /\ \E e \in Elems(g.edges[u]) : e.to = v

IsGraphPath(g, p) ==
    \A k \in 1..(Len(p) - 1) : HasEdge(g, p[k], p[k + 1])

RECURSIVE PathCost(_, _, _)
\* Sum of the costs of the first k edges of path p.
PathCost(g, p, k) ==
    IF k = 0 THEN 0
    ELSE PathCost(g, p, k - 1) + EdgeBetween(g, p[k], p[k + 1]).cost

RECURSIVE PathResource(_, _, _, _)
\* Resource i consumed by the first k edges of path p.
PathResource(g, p, k, i) ==
    IF k = 0 THEN 0
    ELSE PathResource(g, p, k - 1, i) + EdgeBetween(g, p[k], p[k + 1]).resources[i]

PrefixesFeasible(g, p, limits) ==
    \A k \in 0..(Len(p) - 1) : \A i \in 1..Len(limits) :
        PathResource(g, p, k, i) <= limits[i]

\* The successors of the (node, resources) pairs in F along edges within the limits.
FeasibleSucc(g, F, limits) ==
    UNION { IF s.node \in DOMAIN g.edges
            THEN { [node |-> e.to, resources |-> NewResources(s, e, limits)] :
                      e \in {x \in Elems(g.edges[s.node]) : EdgeValid(s, x, limits)} }
            ELSE {} : s \in F }

RECURSIVE FeasibleReach(_, _, _)
FeasibleReach(g, seen, limits) ==
    LET more == seen \cup FeasibleSucc(g, seen, limits)
    IN IF more = seen THEN seen ELSE FeasibleReach(g, more, limits)

\* Some path from node 0 to the sink keeps within the limits in every dimension.
FeasiblePathExists(g, limits) ==
    \E s \in FeasibleReach(g, {[node |-> 0, resources |-> [i \in 1..Len(limits) |-> 0]]},
                           limits) : s.node = Sink(g)

NoDuplicates(s) == \A i, j \in 1..Len(s) : i # j => s[i] # s[j]

\* ------------------------------------------------- claims on the decoder

\* C1: whenever decode_chromosome returns Some((path, cost)), the cumulative
\* resource vector of every prefix of the returned path is component-wise
\* within resource_limits.
C1_ReturnedPathFeasible ==
    dpc = "some" => IsGraphPath(graph, path) /\ PrefixesFeasible(graph, path, resource_limits)

\* C2: whenever decode_chromosome returns Some((path, cost)), the path starts
\* at node 0, ends at the sink, follows edges of the graph, and the returned
\* cost is the sum of the costs of the edges of the path.
C2_ReturnedCostIsPathCost ==
    dpc = "some" =>
        /\ path[1] = 0
        /\ path[Len(path)] = Sink(graph)
        /\ IsGraphPath(graph, path)
        /\ current.cost = PathCost(graph, path, Len(path) - 1)

\* C6: decode_chromosome returns None only if no path from node 0 to the sink
\* keeps within resource_limits in every dimension.
C6_NoneOnlyIfInfeasible ==
    dpc = "none" => ~FeasiblePathExists(graph, resource_limits)

\* C10: the reconstruction walk from the sink never meets a node twice (so it
\* ends within num_nodes steps), on every graph, cyclic ones included.
C10_WalkNeverRevisits ==
    dpc \in {"walk", "some"} => NoDuplicates(path)


\* ------------------------------------------------- genetic operators

Chromosome(gs, fit) == [genes |-> gs, fitness |-> fit]

\* 0.0
Zero == [num |-> 0, den |-> 1]

\* a > b on fitness values
FitGreater(a, b) == a.num * b.den > b.num * a.den

\* 1.0 / cost for Some((_, cost)), 0.0 for None
FitnessOf(r) ==
    IF r.kind = "Some" THEN [num |-> 1, den |-> r.cost] ELSE Zero

\* The fitness evaluation of one chromosome (lines 215-219 and 251-255).
Evaluate(c) ==
    [c EXCEPT !.fitness =
        FitnessOf(DecodeChromosome(graph, c.genes, resource_limits, heapTie))]

Hangs(gs) == DecodeChromosome(graph, gs, resource_limits, heapTie).kind = "Hang"

RECURSIVE FillFromParent2(_, _, _, _, _, _, _)
\* while parent2_idx < n { ... }: j and idx are 0-based as in the source.
FillFromParent2(child, used, p2, j, idx, start, n) ==
    IF idx >= n THEN child
    ELSE LET gene == p2[idx + 1]
         IN IF gene \notin used
            THEN LET filled == [child EXCEPT ![j + 1] = gene]
                     j2 == (j + 1) % n
                 IN IF j2 = start THEN filled
                    ELSE FillFromParent2(filled, used, p2, j2, idx + 1, start, n)
            ELSE FillFromParent2(child, used, p2, j, idx + 1, start, n)

\* Order crossover with cut points point1, point2 (0-based); the fill cursor
\* starts at (end + off) % n.
CrossoverFrom(parent1, parent2, point1, point2, off) ==
    LET n == Len(parent1.genes)
        start == IF point1 < point2 THEN point1 ELSE point2
        end == IF point1 < point2 THEN point2 ELSE point1
        segment == [i \in 1..n |->
                       IF start + 1 <= i /\ i <= end + 1 THEN parent1.genes[i] ELSE 0]
        used == {parent1.genes[i] : i \in (start + 1)..(end + 1)}
    IN Chromosome(FillFromParent2(segment, used, parent2.genes, (end + off) % n, 0, start, n),
                  Zero)

\* The fill cursor starts on the last slot of the copied segment.
CrossoverOffByOne(parent1, parent2, point1, point2) ==
    CrossoverFrom(parent1, parent2, point1, point2, 0)

Crossover(parent1, parent2, point1, point2) ==
    CrossoverFrom(parent1, parent2, point1, point2, 1)

\* chromosome.genes.swap(i, j), i and j 0-based
Mutate(c, i, j) ==
    [c EXCEPT !.genes = [k \in 1..Len(c.genes) |->
                            IF k = i + 1 THEN c.genes[j + 1]
                            ELSE IF k = j + 1 THEN c.genes[i + 1]
                            ELSE c.genes[k]]]

TournamentSize == 3

\* if competitor.fitness > best.fitness { best = competitor; }
Compete(best, competitor) ==
    IF FitGreater(competitor.fitness, best.fitness) THEN competitor ELSE best

RECURSIVE TournamentSelection(_, _)
\* The chromosomes tournament_selection can hold in best after k draws of
\* rng.random_range(0..population.len()); after tournament_size draws it
\* returns the clone of best.
TournamentSelection(pop, k) ==
    IF k = 1 THEN {pop[i] : i \in 1..Len(pop)}
    ELSE {Compete(best, pop[i]) : best \in TournamentSelection(pop, k - 1), i \in 1..Len(pop)}

\* What tournament_selection(&population, 3, rng) can return.
Parents(pop) == TournamentSelection(pop, TournamentSize)

RECURSIVE InsertDescending(_, _, _)
\* x goes before the first entry, from position k on, whose fitness is lower.
InsertDescending(sorted, x, k) ==
    IF k > Len(sorted) THEN Append(sorted, x)
    ELSE IF FitGreater(x.fitness, sorted[k].fitness)
         THEN SubSeq(sorted, 1, k - 1) \o << x >> \o SubSeq(sorted, k, Len(sorted))
         ELSE InsertDescending(sorted, x, k + 1)

RECURSIVE SortPrefix(_, _)
SortPrefix(pop, k) ==
    IF k = 0 THEN << >> ELSE InsertDescending(SortPrefix(pop, k - 1), pop[k], 1)

\* The comparison is a.fitness against b.fitness: the order is ascending.
SortByFitnessAscending(pop) == Reverse(SortPrefix(pop, Len(pop)))

\* population.sort_by(|a, b| b.fitness.partial_cmp(&a.fitness).unwrap()): stable, descending
SortByFitness(pop) == SortPrefix(pop, Len(pop))

\* One elite for every hundred chromosomes.
EliteSizePercent(P) == P \div 100

\* (population_size as f64 * 0.1) as usize
EliteSize(P) == P \div 10

\* What lines 239-245 can leave in child, for genes of length n >= 1: the
\* crossover of the two parents at any two cut points, or the clone of a parent.
Bases(pop) ==
    LET n == Len(pop[1].genes)
        parents == Parents(pop)
    IN UNION { {Crossover(p1, p2, a, b) : a, b \in 0..(n - 1)}
               \cup {IF FitGreater(p1.fitness, p2.fitness) THEN p1 ELSE p2} :
               p1 \in parents, p2 \in parents }

\* What mutate(&mut child, ..) can leave in child: child itself, or child with
\* two positions swapped.
Mutated(S) ==
    S \cup UNION { {Mutate(c, i, j) : i, j \in 0..(Len(c.genes) - 1)} : c \in S }

\* The children are evaluated first and mutated afterwards.
ChildrenEvaluatedFirst(pop) == Mutated({Evaluate(c) : c \in Bases(pop)})

\* The children one iteration of the breeding loop can push (lines 235-257):
\* selection, crossover or clone, mutation, and then the fitness evaluation.
Children(pop) == {Evaluate(c) : c \in Mutated(Bases(pop))}

\* ------------------------------------------------- genetic_algorithm

\* main()
MainEdges ==
    << Edge(0, 1, 2, <<1, 2>>),
       Edge(0, 2, 3, <<2, 1>>),
       Edge(1, 2, 1, <<1, 1>>),
       Edge(1, 3, 4, <<2, 3>>),
       Edge(2, 3, 2, <<1, 4>>),
       Edge(2, 4, 5, <<3, 1>>),
       Edge(3, 4, 1, <<1, 2>>) >>

MainGraph == Graph(5, MainEdges)

\* Four nodes; the two chromosomes decode to different costs.
DetourGraph ==
    Graph(4, << Edge(0, 1, 1, <<1, 0>>), Edge(0, 2, 5, <<1, 1>>),
                Edge(1, 2, 1, <<1, 0>>), Edge(2, 3, 1, <<1, 1>>) >>)

\* Four nodes; chromosome <<2, 1>> decodes to None, <<1, 2>> to a path.
TightGraph ==
    Graph(4, << Edge(0, 1, 1, <<1, 0>>), Edge(0, 2, 5, <<3, 0>>),
                Edge(1, 2, 1, <<0, 1>>), Edge(2, 3, 1, <<2, 1>>) >>)

\* Three nodes with an edge back to the source.
BackEdgeGraph ==
    Graph(3, << Edge(0, 1, 1, <<1, 0>>), Edge(1, 0, 1, <<0, 0>>),
                Edge(1, 2, 1, <<1, 1>>) >>)

TwoNodeGraph == Graph(2, << Edge(0, 1, 1, <<1, 1>>) >>)

OneNodeGraph == Graph(1, << >>)

ZeroNodeGraph == Graph(0, << >>)

Run(g, limits, P) == [graph |-> g, limits |-> limits, population_size |-> P]

\* The calls of genetic_algorithm made under SpecGA.
Runs ==
    { Run(MainGraph, <<5, 7>>, 1), Run(MainGraph, <<5, 7>>, 2),
      Run(MainGraph, <<0, 0>>, 2),
      Run(DetourGraph, <<4, 4>>, 1), Run(DetourGraph, <<4, 4>>, 3),
      Run(TightGraph, <<4, 4>>, 2), Run(TightGraph, <<0, 0>>, 3),
      Run(BackEdgeGraph, <<4, 4>>, 1),
      Run(TwoNodeGraph, <<4, 4>>, 1), Run(OneNodeGraph, <<4, 4>>, 1),
      Run(ZeroNodeGraph, <<4, 4>>, 1) }

\* The calls made under SpecElite: populations with and without an elite.
EliteRuns ==
    { Run(TightGraph, <<4, 4>>, 10), Run(TightGraph, <<4, 4>>, 2),
      Run(DetourGraph, <<4, 4>>, 3), Run(TwoNodeGraph, <<4, 4>>, 2),
      Run(ZeroNodeGraph, <<4, 4>>, 1) }

Pending == [kind |-> "Pending"]

DecodeIdle ==
    /\ genes = << >>
    /\ queue = << >>
    /\ visited = {}
    /\ came_from = << >>
    /\ cost_so_far = << >>
    /\ current = None
    /\ node = 0
    /\ path = << >>
    /\ dpc = "idle"

\* genetic_algorithm is called with one of the calls of R and up to maxGen generations.
Called(R, maxGen) ==
    /\ \E r \in R :
          /\ graph = r.graph
          /\ resource_limits = r.limits
          /\ population_size = r.population_size
    /\ generations \in 0..maxGen
    /\ heapTie \in {"oldest", "newest"}
    /\ population = << >>
    /\ new_population = << >>
    /\ gen = 0
    /\ result = Pending
    /\ pc = "start"
    /\ DecodeIdle

InitGA == Called(Runs, MaxGen)

InitElite == Called(EliteRuns, MaxEliteGen)

\* Line 139 with num_nodes = 0: num_nodes - 1 underflows; the debug build panics
\* there, the release build wraps and dies collecting the range 1..usize::MAX.
GeneratePanic ==
    /\ pc = "start"
    /\ graph.num_nodes = 0
    /\ population_size >= 1
    /\ pc' = "panic"
    /\ UNCHANGED <<graph, resource_limits, population_size, generations, population,
                   new_population, gen, result, heapTie>>
    /\ UNCHANGED decodeVars

\* Lines 209-220: the initial population is generated and evaluated.
\* initial[p] is generate_random_chromosome's chromosome of genes p, evaluated.
Initialize ==
    /\ pc = "start"
    /\ graph.num_nodes >= 1
    /\ LET perms == Permutations1(Intermediate(graph))
           initial == [p \in perms |-> Evaluate(Chromosome(p, Zero))]
           hanging == {p \in perms : Hangs(p)}
       IN \E pop \in [1..population_size -> perms] :
             IF \E i \in 1..population_size : pop[i] \in hanging
             THEN /\ pc' = "hang"
                  /\ population' = [i \in 1..population_size |-> Chromosome(pop[i], Zero)]
             ELSE /\ pc' = "loop"
                  /\ population' = [i \in 1..population_size |-> initial[pop[i]]]
    /\ UNCHANGED <<graph, resource_limits, population_size, generations, new_population,
                   gen, result, heapTie>>
    /\ UNCHANGED decodeVars

\* Lines 222-230: a generation starts; the population is sorted and the elite copied.
GenerationStart ==
    /\ pc = "loop"
    /\ gen < generations
    /\ population' = SortByFitness(population)
    /\ new_population' = SubSeq(SortByFitness(population), 1, EliteSize(population_size))
    /\ pc' = "breed"
    /\ UNCHANGED <<graph, resource_limits, population_size, generations, gen, result,
                   heapTie>>
    /\ UNCHANGED decodeVars

\* Lines 233-258: one iteration of the breeding loop pushes a child.
Breed ==
    /\ pc = "breed"
    /\ Len(new_population) < population_size
    /\ Len(population[1].genes) >= 1
    /\ \E child \in Children(population) :
          IF Hangs(child.genes)
          THEN /\ pc' = "hang"
               /\ UNCHANGED new_population
          ELSE /\ pc' = "breed"
               /\ new_population' = Append(new_population, child)
    /\ UNCHANGED <<graph, resource_limits, population_size, generations, population,
                   gen, result, heapTie>>
    /\ UNCHANGED decodeVars

\* The same iteration on empty genes, neither crossover nor mutation drawn:
\* the child is the clone of a parent.
BreedEmpty ==
    /\ pc = "breed"
    /\ Len(new_population) < population_size
    /\ Len(population[1].genes) = 0
    /\ \E p1, p2 \in Parents(population) :
          IF Hangs(p1.genes)
          THEN /\ pc' = "hang"
               /\ UNCHANGED new_population
          ELSE /\ pc' = "breed"
               /\ new_population' =
                     Append(new_population,
                            Evaluate(IF FitGreater(p1.fitness, p2.fitness) THEN p1 ELSE p2))
    /\ UNCHANGED <<graph, resource_limits, population_size, generations, population,
                   gen, result, heapTie>>
    /\ UNCHANGED decodeVars

\* The same iteration on empty genes with crossover or mutation drawn:
\* rng.random_range(0..0) panics (lines 151, 192).
BreedPanic ==
    /\ pc = "breed"
    /\ Len(new_population) < population_size
    /\ Len(population[1].genes) = 0
    /\ pc' = "panic"
    /\ UNCHANGED <<graph, resource_limits, population_size, generations, population,
                   new_population, gen, result, heapTie>>
    /\ UNCHANGED decodeVars

\* Line 260: population = new_population.
Replace ==
    /\ pc = "breed"
    /\ Len(new_population) >= population_size
    /\ population' = new_population
    /\ new_population' = << >>
    /\ gen' = gen + 1
    /\ pc' = "loop"
    /\ UNCHANGED <<graph, resource_limits, population_size, generations, result, heapTie>>
    /\ UNCHANGED decodeVars

OptionPath(r) == IF r.kind = "Some" THEN [kind |-> "Some", path |-> r.path] ELSE None

\* Lines 263-267: the final sort and the decoding of population[0].
Finalize ==
    /\ pc = "loop"
    /\ gen = generations
    /\ population' = SortByFitness(population)
    /\ result' = OptionPath(DecodeChromosome(graph, SortByFitness(population)[1].genes,
                                             resource_limits, heapTie))
    /\ pc' = "done"
    /\ UNCHANGED <<graph, resource_limits, population_size, generations, new_population,
                   gen, heapTie>>
    /\ UNCHANGED decodeVars

NextGA ==
    \/ Initialize
    \/ GeneratePanic
    \/ GenerationStart
    \/ Breed
    \/ BreedEmpty
    \/ BreedPanic
    \/ Replace
    \/ Finalize

SpecGA == InitGA /\ [][NextGA]_vars

SpecElite == InitElite /\ [][NextGA]_vars

\* ------------------------------------------------- claims on the evolution loop

IsPermutation(gs) ==
    /\ Len(gs) = graph.num_nodes - 2
    /\ Elems(gs) = Intermediate(graph)

Decoded(c) == DecodeChromosome(graph, c.genes, resource_limits, heapTie)

\* No chromosome of pop has a fitness above f.
IsBest(f, pop) == \A i \in 1..Len(pop) : ~FitGreater(pop[i].fitness, f)

BestFitness(pop) ==
    CHOOSE f \in {pop[i].fitness : i \in 1..Len(pop)} : IsBest(f, pop)

\* C3: for num_nodes >= 3 the genes of every chromosome of the population and
\* of the next generation, and of every crossover of two selected parents at
\* every pair of cut points, are a permutation of 1 .. num_nodes-2.
C3_GenesArePermutations ==
    graph.num_nodes >= 3 =>
        /\ \A i \in 1..Len(population) : IsPermutation(population[i].genes)
        /\ \A i \in 1..Len(new_population) : IsPermutation(new_population[i].genes)
        /\ pc = "breed" =>
              \A c \in Mutated(Bases(population)) : IsPermutation(c.genes)

\* A child that is neither an elite nor the clone of a parent has been pushed.
C3_Witness ==
    /\ graph.num_nodes >= 5
    /\ pc = "breed"
    /\ \E i \in 1..Len(new_population) :
          \A j \in 1..Len(population) : new_population[i].genes # population[j].genes

\* C4 as stated: for every population_size >= 1 the best fitness after a
\* replacement is at least the best fitness before it.
C4_BestNeverDrops ==
    [][Replace => ~FitGreater(BestFitness(population), BestFitness(population'))]_vars

\* C4 amended: for every population_size >= 10 the best fitness after a
\* replacement is at least the best fitness before it.
C4_BestNeverDropsWithElite ==
    [][(Replace /\ population_size >= 10) =>
          ~FitGreater(BestFitness(population), BestFitness(population'))]_vars

\* A population of 10 has been replaced, and not all of it is as fit as its best.
C4_Witness ==
    /\ population_size >= 10
    /\ pc = "loop"
    /\ gen >= 1
    /\ \E i \in 1..Len(population) :
          FitGreater(BestFitness(population), population[i].fitness)

\* C5: at every generation boundary every chromosome of the population has
\* fitness 1/cost for the cost its genes decode to, or 0 if they decode to None.
C5_FitnessMatchesGenes ==
    pc \in {"loop", "done"} =>
        \A i \in 1..Len(population) :
            LET r == Decoded(population[i])
                f == population[i].fitness
            IN /\ r.kind = "Some" => f.num = 1 /\ f.den = r.cost
               /\ r.kind = "None" => f.num = 0 /\ f.den = 1

\* A population with an elite has been replaced; it holds a chromosome that
\* decodes to a path and one that decodes to None.
C5_Witness ==
    /\ population_size >= 10
    /\ pc = "loop"
    /\ gen >= 1
    /\ \E i, j \in 1..Len(population) :
          /\ Decoded(population[i]).kind = "Some"
          /\ Decoded(population[j]).kind = "None"

\* C7: on a graph of 2 nodes or fewer the search generates no chromosome,
\* does not panic and returns no path.
C7_SmallGraphRejected ==
    graph.num_nodes <= 2 =>
        /\ population = << >>
        /\ new_population = << >>
        /\ pc # "panic"
        /\ ~(pc = "done" /\ result.kind = "Some")

AllLimitsZero == \A i \in 1..Len(resource_limits) : resource_limits[i] = 0

EveryEdgeConsumes ==
    \A u \in DOMAIN graph.edges : \A e \in Elems(graph.edges[u]) :
        \E i \in 1..Len(resource_limits) : e.resources[i] > 0

\* C8: with every limit 0 and every edge consuming some resource (num_nodes >= 3),
\* every permutation decodes to None, every fitness is 0 and the result is None.
C8_ZeroLimitsGiveNone ==
    (AllLimitsZero /\ EveryEdgeConsumes /\ graph.num_nodes >= 3) =>
        /\ \A p \in Permutations1(Intermediate(graph)) :
              DecodeChromosome(graph, p, resource_limits, heapTie) = None
        /\ \A i \in 1..Len(population) : population[i].fitness = Zero
        /\ \A i \in 1..Len(new_population) : new_population[i].fitness = Zero
        /\ pc = "done" => result = None

\* A run with zero limits on a graph that has edges has ended after a generation.
C8_Witness ==
    /\ AllLimitsZero
    /\ EveryEdgeConsumes
    /\ graph.num_nodes >= 3
    /\ DOMAIN graph.edges # {}
    /\ pc = "done"
    /\ gen >= 1

\* C9: for num_nodes >= 3 the result is the path some chromosome of maximal
\* fitness of the final population decodes to; it is None exactly if every
\* fitness of the final population is 0, and Some if any chromosome decodes.
C9_ResultIsBestPath ==
    (pc = "done" /\ graph.num_nodes >= 3) =>
        /\ \E i \in 1..Len(population) :
              /\ IsBest(population[i].fitness, population)
              /\ result = OptionPath(Decoded(population[i]))
        /\ result = None <=> \A j \in 1..Len(population) : population[j].fitness = Zero
        /\ (\E j \in 1..Len(population) : Decoded(population[j]).kind = "Some")
              => result.kind = "Some"

\* A run has ended after a generation with a path, and its final population
\* holds a chromosome less fit than the best.
C9_Witness ==
    /\ pc = "done"
    /\ graph.num_nodes >= 3
    /\ gen >= 1
    /\ result.kind = "Some"
    /\ \E j \in 1..Len(population) :
          FitGreater(BestFitness(population), population[j].fitness)

=============================================================================
